---- MODULE Spec2Model ----
(***************************************************************************)
(* Model of src/utils/utils.py: the text Decoder, the CTC sequence         *)
(* converter, the TeacherWrapper activation capture and the checkpoint     *)
(* loader.  Strings are sequences of one-character strings, Python lists   *)
(* are sequences, list objects live in a heap indexed by references.       *)
(***************************************************************************)
EXTENDS Integers, Sequences, FiniteSets, TLC

VARIABLES
    ids,              \* the id sequence handed to the converter / decoder
    called,           \* which of the calls below have been made
    collapsed,        \* CTCSequenceConverter("list")(ids)
    recollapsed,      \* the converter applied to its own output
    decoded,          \* Decoder().decode(ids)
    decodedCollapsed, \* Decoder().decode(collapsed)
    lists,            \* heap of Python list objects: reference -> contents
    pc,               \* per caller: position inside TeacherWrapper code
    pass,             \* per caller: id of the forward pass it is running
    layer,            \* per caller: index of the next encoder layer to run
    local,            \* per caller: the local variable hook_hiddens (a reference)
    nextPass,         \* number of forward passes started so far
    returned,         \* results handed back by extract_features
    raised,           \* passes that ended in an exception
    overlapped,       \* passes that ran while another extract_features call was active
    lpc,              \* load_model_and_config: position
    stateKeys,        \* which of "args"/"cfg" the checkpoint state holds
    model_type,       \* the _name tag of cfg.model ("None" when absent)
    weightsMatch,     \* whether state['model'] matches the built model exactly
    model,            \* the model object built so far
    task_agnostic,    \* "None", "True" or "False"
    weights_loaded,   \* model.load_state_dict has run
    outcome           \* "running", "returned" or the name of the exception

ctcVars  == <<ids, called, collapsed, recollapsed, decoded, decodedCollapsed>>
wrapVars == <<lists, pc, pass, layer, local, nextPass, returned, raised, overlapped>>
loadVars == <<lpc, stateKeys, model_type, weightsMatch, model, task_agnostic,
              weights_loaded, outcome>>
vars     == <<ctcVars, wrapVars, loadVars>>

(***************************************************************************)
(* Bounds of the model.                                                    *)
(***************************************************************************)
MaxLen    == 3   \* longest enumerated id sequence
MaxPasses == 3   \* forward passes in one behaviour
MaxConcurrentPasses == 2   \* forward passes in one behaviour of two callers
NumLayers == 2   \* encoder layers of the wrapped model

\* The ids the inputs are drawn from: the blank, the control symbols, the word
\* separator, letters, and ids on both sides of each end of the table.
TestIds == {-33, -32, -1, 0, 1, 2, 3, 4, 5, 6, 7, 31, 32}

\* decode([5,5,6,6,4,7]) and "3 repeats of id 5 then id 4 then id 7"
Example1 == <<5, 5, 6, 6, 4, 7>>
Example2 == <<5, 5, 5, 4, 7>>

RECURSIVE SeqsUpTo(_, _)
SeqsUpTo(S, n) ==
    IF n = 0 THEN {<<>>}
    ELSE LET shorter == SeqsUpTo(S, n - 1)
         IN  shorter \cup {Append(s, x) : s \in shorter, x \in S}

Inputs == SeqsUpTo(TestIds, MaxLen) \cup {Example1, Example2}

(***************************************************************************)
(* Decoder                                                                 *)
(***************************************************************************)
VocabSize == 32

\* self.look_up = np.asarray(list(self.dict.keys())): symbol of id i at i + 1
look_up ==
    << <<"<","s",">">>, <<"<","p","a","d",">">>, <<"<","/","s",">">>,
       <<"<","u","n","k",">">>, <<"|">>, <<"E">>, <<"T">>, <<"A">>, <<"O">>,
       <<"N">>, <<"I">>, <<"H">>, <<"S">>, <<"R">>, <<"D">>, <<"L">>, <<"U">>,
       <<"M">>, <<"W">>, <<"C">>, <<"F">>, <<"G">>, <<"Y">>, <<"P">>, <<"B">>,
       <<"V">>, <<"K">>, <<"'">>, <<"X">>, <<"J">>, <<"Q">>, <<"Z">> >>

SosMarker == <<"<","s",">">>
WordSep   == <<"|">>
Space     == <<" ">>
Whitespace == {" ", "\t", "\n", "\r"}

\* numpy integer indexing of an array of 32 entries: an index in -32..-1
\* counts from the end, anything outside -32..31 raises IndexError.
\* variant: a bounds test that rejects negative indices
StrictInBounds(i) == i >= 0 /\ i < VocabSize
InBounds(i) == i >= -VocabSize /\ i < VocabSize

ArrayIndex(i) == IF i < 0 THEN i + VocabSize + 1 ELSE i + 1

\* itertools.groupby(s) with the default key, keeping tok[0] of every group:
\* the first element of each maximal run of equal elements.
\* variant: runs are not merged
NoMergeKeys(s) == s

RECURSIVE GroupByKeys(_)
GroupByKeys(s) ==
    IF Len(s) = 0 THEN <<>>
    ELSE IF Len(s) >= 2 /\ s[1] = s[2] THEN GroupByKeys(Tail(s))
    ELSE <<s[1]>> \o GroupByKeys(Tail(s))

\* ''.join(parts) and sep.join(parts)
RECURSIVE Join(_, _)
Join(parts, sep) ==
    IF Len(parts) = 0 THEN <<>>
    ELSE IF Len(parts) = 1 THEN parts[1]
    ELSE parts[1] \o sep \o Join(Tail(parts), sep)

StartsWith(s, sep) ==
    Len(s) >= Len(sep) /\ SubSeq(s, 1, Len(sep)) = sep

\* s.split(sep): cut at the non-overlapping occurrences of sep, left to right
RECURSIVE SplitFrom(_, _, _)
SplitFrom(s, sep, acc) ==
    IF Len(s) = 0 THEN <<acc>>
    ELSE IF StartsWith(s, sep)
         THEN <<acc>> \o SplitFrom(SubSeq(s, Len(sep) + 1, Len(s)), sep, <<>>)
         ELSE SplitFrom(Tail(s), sep, Append(acc, s[1]))

Split(s, sep) == SplitFrom(s, sep, <<>>)

\* variant: trailing whitespace is kept
NoStrip(s) == s

\* s.rstrip()
RECURSIVE RStrip(_)
RStrip(s) ==
    IF Len(s) > 0 /\ s[Len(s)] \in Whitespace
    THEN RStrip(SubSeq(s, 1, Len(s) - 1))
    ELSE s

IndexError == [err |-> TRUE, text |-> <<>>]

\* Decoder.decode
decode(xs) ==
    IF \E k \in 1..Len(xs) : ~InBounds(xs[k]) THEN IndexError
    ELSE LET converted_tokens == [k \in 1..Len(xs) |-> look_up[ArrayIndex(xs[k])]]
             fused_tokens == GroupByKeys(converted_tokens)
             joined == Join(fused_tokens, <<>>)
             no_sos == Join(Split(joined, SosMarker), <<>>)
             words  == Join(Split(no_sos, WordSep), Space)
         IN  [err |-> FALSE, text |-> RStrip(words)]

(***************************************************************************)
(* CTCSequenceConverter                                                    *)
(***************************************************************************)
BlankId == 0

\* variants: no id is filtered out; the pad id 1 is taken for the blank
KeepAll(x) == TRUE
NotPad(x) == x # 1
NotBlank(x) == x # BlankId

\* CTCSequenceConverter.__call__: [tok[0] for tok in groupby(ids) if tok[0] != 0]
\* (both return types hold the same elements in the same order)
convert(xs) == SelectSeq(GroupByKeys(xs), NotBlank)

Collapse ==
    /\ "collapse" \notin called
    /\ collapsed' = convert(ids)
    /\ called' = called \cup {"collapse"}
    /\ UNCHANGED <<ids, recollapsed, decoded, decodedCollapsed>>
    /\ UNCHANGED <<wrapVars, loadVars>>

CollapseAgain ==
    /\ "collapse" \in called
    /\ "recollapse" \notin called
    /\ recollapsed' = convert(collapsed)
    /\ called' = called \cup {"recollapse"}
    /\ UNCHANGED <<ids, collapsed, decoded, decodedCollapsed>>
    /\ UNCHANGED <<wrapVars, loadVars>>

DecodeRaw ==
    /\ "decode" \notin called
    /\ decoded' = decode(ids)
    /\ called' = called \cup {"decode"}
    /\ UNCHANGED <<ids, collapsed, recollapsed, decodedCollapsed>>
    /\ UNCHANGED <<wrapVars, loadVars>>

DecodeCollapsed ==
    /\ "collapse" \in called
    /\ "decodeCollapsed" \notin called
    /\ decodedCollapsed' = decode(collapsed)
    /\ called' = called \cup {"decodeCollapsed"}
    /\ UNCHANGED <<ids, collapsed, recollapsed, decoded>>
    /\ UNCHANGED <<wrapVars, loadVars>>

(***************************************************************************)
(* TeacherWrapper                                                          *)
(***************************************************************************)
Callers == {1, 2}

\* self._hook_hiddens = [] is list object 0; every hook closes over that same
\* object (generate_hook_handler(self._hook_hiddens)).  The list object a pass
\* p creates is object p.
HookRef == 0

ListRefs == 0..MaxPasses

\* what encoder layer l produces during forward pass p
Output(p, l) == <<p, l>>

\* the outputs of one full pass, layer 0 first
OwnOutputs(p) == [k \in 1..NumLayers |-> Output(p, k - 1)]

InExtract(t) == pc[t] \in {"forward", "clear", "result"}

\* hook_handler: hiddens.append(output)
hook_handler(h, output) == [h EXCEPT ![HookRef] = Append(@, output)]

\* variant: the buffer is not cleared at entry
KeepHiddens(h) == h

\* self._hook_hiddens.clear()
ClearHiddens(h) == [h EXCEPT ![HookRef] = <<>>]

\* variant: the buffer is not cleared after the copy
KeepHiddensAfterCopy(h) == h

\* the second self._hook_hiddens.clear(), after the copy
ClearAfterCopy(h) == [h EXCEPT ![HookRef] = <<>>]

\* variant: the buffer itself is handed out instead of a copy
AliasHiddens(h, p) == [heap |-> h, ref |-> HookRef]

\* self._hook_hiddens.copy(): a new list object with the same entries
CopyHiddens(h, p) == [heap |-> [h EXCEPT ![p] = h[HookRef]], ref |-> p]

\* the call of caller t ends (return or exception): its frame is gone
LeaveCall(t) ==
    /\ pc' = [pc EXCEPT ![t] = "idle"]
    /\ pass' = [pass EXCEPT ![t] = 0]
    /\ layer' = [layer EXCEPT ![t] = 0]
    /\ local' = [local EXCEPT ![t] = 0]

\* extract_features, line 76-77: clear the buffer, then enter the wrapped model
BeginExtract(t) ==
    /\ pc[t] = "idle"
    /\ nextPass < MaxPasses
    /\ lists' = ClearHiddens(lists)
    /\ nextPass' = nextPass + 1
    /\ pass' = [pass EXCEPT ![t] = nextPass + 1]
    /\ layer' = [layer EXCEPT ![t] = 0]
    /\ pc' = [pc EXCEPT ![t] = "forward"]
    /\ overlapped' =
          IF \E u \in Callers \ {t} : InExtract(u)
          THEN overlapped \cup {nextPass + 1}
                          \cup {pass[u] : u \in {v \in Callers \ {t} : InExtract(v)}}
          ELSE overlapped
    /\ UNCHANGED <<local, returned, raised>>
    /\ UNCHANGED <<ctcVars, loadVars>>

\* the wrapped model run without the wrapper (wrapper.model(...)): hooks fire too
BeginDirect(t) ==
    /\ pc[t] = "idle"
    /\ nextPass < MaxPasses
    /\ nextPass' = nextPass + 1
    /\ pass' = [pass EXCEPT ![t] = nextPass + 1]
    /\ layer' = [layer EXCEPT ![t] = 0]
    /\ pc' = [pc EXCEPT ![t] = "direct"]
    /\ UNCHANGED <<lists, local, returned, raised, overlapped>>
    /\ UNCHANGED <<ctcVars, loadVars>>

\* one encoder layer finishes: its forward hook appends the output
RunLayer(t) ==
    /\ pc[t] \in {"forward", "direct"}
    /\ layer[t] < NumLayers
    /\ lists' = hook_handler(lists, Output(pass[t], layer[t]))
    /\ layer' = [layer EXCEPT ![t] = layer[t] + 1]
    /\ UNCHANGED <<pc, pass, local, nextPass, returned, raised, overlapped>>
    /\ UNCHANGED <<ctcVars, loadVars>>

\* the wrapped model raises part-way; the exception leaves extract_features
ModelRaises(t) ==
    /\ pc[t] \in {"forward", "direct"}
    /\ layer[t] < NumLayers
    /\ raised' = raised \cup {[pass |-> pass[t], exc |-> "ModelError", at |-> layer[t]]}
    /\ LeaveCall(t)
    /\ UNCHANGED <<lists, nextPass, returned, overlapped>>
    /\ UNCHANGED <<ctcVars, loadVars>>

\* the direct run of the wrapped model returns
DirectReturns(t) ==
    /\ pc[t] = "direct"
    /\ layer[t] = NumLayers
    /\ LeaveCall(t)
    /\ UNCHANGED <<lists, nextPass, returned, raised, overlapped>>
    /\ UNCHANGED <<ctcVars, loadVars>>

\* lines 79-85: self.model.extract_features(...) has run every layer and
\* returns; hook_hiddens = self._hook_hiddens.copy()
CopyStep(t) ==
    /\ pc[t] = "forward"
    /\ layer[t] = NumLayers
    /\ lists' = CopyHiddens(lists, pass[t]).heap
    /\ local' = [local EXCEPT ![t] = CopyHiddens(lists, pass[t]).ref]
    /\ pc' = [pc EXCEPT ![t] = "clear"]
    /\ UNCHANGED <<pass, layer, nextPass, returned, raised, overlapped>>
    /\ UNCHANGED <<ctcVars, loadVars>>

\* line 86: self._hook_hiddens.clear()
ClearStep(t) ==
    /\ pc[t] = "clear"
    /\ lists' = ClearAfterCopy(lists)
    /\ pc' = [pc EXCEPT ![t] = "result"]
    /\ UNCHANGED <<pass, layer, local, nextPass, returned, raised, overlapped>>
    /\ UNCHANGED <<ctcVars, loadVars>>

\* lines 88-91: result['layer_results'] = hook_hiddens;
\* result['x'] = result['layer_results'][-1][0]...; return result.
\* Indexing [-1] of an empty list raises IndexError.
ReturnResult(t) ==
    /\ pc[t] = "result"
    /\ IF Len(lists[local[t]]) = 0
       THEN /\ raised' = raised \cup {[pass |-> pass[t], exc |-> "IndexError", at |-> layer[t]]}
            /\ UNCHANGED returned
       ELSE /\ returned' = returned \cup
                  {[pass |-> pass[t], layer_results |-> local[t],
                    x |-> lists[local[t]][Len(lists[local[t]])]]}
            /\ UNCHANGED raised
    /\ LeaveCall(t)
    /\ UNCHANGED <<lists, nextPass, overlapped>>
    /\ UNCHANGED <<ctcVars, loadVars>>

(***************************************************************************)
(* load_model_and_config                                                   *)
(***************************************************************************)
\* values of getattr(model_cfg, "_name", None) the checkpoints are drawn from
Tags == {"wav2vec2", "wav2vec_ctc", "hubert", "data2vec", "wav2vec", "None"}

\* which of state["args"], state["cfg"] is present and not None
StateKeys == {"args", "cfg", "both", "neither"}

NoModel == [class |-> "None", wrapped |-> FALSE, layerdrop |-> "cfg"]

\* the class whose build_model the if/elif chain calls; "unsupported" is the else branch
ModelClass(tag) ==
    CASE tag = "wav2vec2"    -> "Wav2Vec2Model"
      [] tag = "wav2vec_ctc" -> "Wav2VecCtc"
      [] tag = "hubert"      -> "HubertModel"
      [] OTHER               -> "unsupported"

\* variant: every branch sets the flag to True
AllAgnostic(tag) == "True"

\* the value the taken branch assigns to task_agnostic
TaskAgnosticOf(tag) ==
    CASE tag = "wav2vec2"    -> "True"
      [] tag = "wav2vec_ctc" -> "False"
      [] tag = "hubert"      -> "True"
      [] OTHER               -> "None"

\* line 96: state = load_checkpoint_to_cpu(filename, arg_overrides)
LoadCheckpoint ==
    /\ lpc = "load_checkpoint"
    /\ lpc' = "resolve_cfg"
    /\ UNCHANGED <<stateKeys, model_type, weightsMatch, model, task_agnostic,
                   weights_loaded, outcome>>
    /\ UNCHANGED <<ctcVars, wrapVars>>

\* lines 98-105: cfg from state["args"] or state["cfg"]; with neither, cfg is
\* unbound and cfg.model raises UnboundLocalError
ResolveCfg ==
    /\ lpc = "resolve_cfg"
    /\ IF stateKeys = "neither"
       THEN /\ outcome' = "UnboundLocalError"
            /\ lpc' = "done"
       ELSE /\ lpc' = "dispatch"
            /\ UNCHANGED outcome
    /\ UNCHANGED <<stateKeys, model_type, weightsMatch, model, task_agnostic,
                   weights_loaded>>
    /\ UNCHANGED <<ctcVars, wrapVars>>

\* lines 107-132: the if/elif/else chain on model_type
Dispatch ==
    /\ lpc = "dispatch"
    /\ IF ModelClass(model_type) = "unsupported"
       THEN /\ outcome' = "NotImplementedError"
            /\ lpc' = "done"
            /\ UNCHANGED <<model, task_agnostic>>
       ELSE /\ model' = [NoModel EXCEPT !.class = ModelClass(model_type)]
            /\ task_agnostic' = TaskAgnosticOf(model_type)
            /\ lpc' = "quantize"
            /\ UNCHANGED outcome
    /\ UNCHANGED <<stateKeys, model_type, weightsMatch, weights_loaded>>
    /\ UNCHANGED <<ctcVars, wrapVars>>

\* line 134: model = quantization_utils.quantize_model_scalar(model, cfg)
Quantize ==
    /\ lpc = "quantize"
    /\ lpc' = "load_state_dict"
    /\ UNCHANGED <<stateKeys, model_type, weightsMatch, model, task_agnostic,
                   weights_loaded, outcome>>
    /\ UNCHANGED <<ctcVars, wrapVars>>

\* line 135: model.load_state_dict(state['model'], strict=True, ...):
\* a missing or unexpected key raises RuntimeError
LoadStateDict ==
    /\ lpc = "load_state_dict"
    /\ IF weightsMatch
       THEN /\ weights_loaded' = TRUE
            /\ lpc' = "wrap"
            /\ UNCHANGED outcome
       ELSE /\ outcome' = "RuntimeError"
            /\ lpc' = "done"
            /\ UNCHANGED weights_loaded
    /\ UNCHANGED <<stateKeys, model_type, weightsMatch, model, task_agnostic>>
    /\ UNCHANGED <<ctcVars, wrapVars>>

\* lines 138-139: model.encoder.layerdrop = 0; model = TeacherWrapper(model)
WrapTeacher ==
    /\ lpc = "wrap"
    /\ model' = [model EXCEPT !.wrapped = TRUE, !.layerdrop = "0"]
    /\ lpc' = "return"
    /\ UNCHANGED <<stateKeys, model_type, weightsMatch, task_agnostic,
                   weights_loaded, outcome>>
    /\ UNCHANGED <<ctcVars, wrapVars>>

\* line 141: return model, model_cfg, task_agnostic
ReturnModel ==
    /\ lpc = "return"
    /\ outcome' = "returned"
    /\ lpc' = "done"
    /\ UNCHANGED <<stateKeys, model_type, weightsMatch, model, task_agnostic,
                   weights_loaded>>
    /\ UNCHANGED <<ctcVars, wrapVars>>

(***************************************************************************)
(* Specifications                                                          *)
(***************************************************************************)
CtcIdle ==
    /\ ids = <<>>
    /\ called = {}
    /\ collapsed = <<>>
    /\ recollapsed = <<>>
    /\ decoded = [err |-> FALSE, text |-> <<>>]
    /\ decodedCollapsed = [err |-> FALSE, text |-> <<>>]

\* TeacherWrapper.__init__: one empty capture list, nobody inside the wrapper
WrapperConstructed ==
    /\ lists = [r \in ListRefs |-> <<>>]
    /\ pc = [t \in Callers |-> "idle"]
    /\ pass = [t \in Callers |-> 0]
    /\ layer = [t \in Callers |-> 0]
    /\ local = [t \in Callers |-> 0]
    /\ nextPass = 0
    /\ returned = {}
    /\ raised = {}
    /\ overlapped = {}

LoaderIdle ==
    /\ lpc = "load_checkpoint"
    /\ stateKeys = "cfg"
    /\ model_type = "wav2vec2"
    /\ weightsMatch = TRUE
    /\ model = NoModel
    /\ task_agnostic = "None"
    /\ weights_loaded = FALSE
    /\ outcome = "running"

\* the converter and the decoder applied to every input of Inputs
InitCTC ==
    /\ ids \in Inputs
    /\ called = {}
    /\ collapsed = <<>>
    /\ recollapsed = <<>>
    /\ decoded = [err |-> FALSE, text |-> <<>>]
    /\ decodedCollapsed = [err |-> FALSE, text |-> <<>>]
    /\ WrapperConstructed
    /\ LoaderIdle

NextCTC == Collapse \/ CollapseAgain \/ DecodeRaw \/ DecodeCollapsed

SpecCTC == InitCTC /\ [][NextCTC]_vars

InitWrapper == CtcIdle /\ WrapperConstructed /\ LoaderIdle

\* one caller: calls on the wrapper never overlap; between calls the wrapped
\* model may be run directly, and a pass may raise part-way
SerialCallers == {1}

NextSerial ==
    \E t \in SerialCallers :
        \/ BeginExtract(t)
        \/ BeginDirect(t)
        \/ RunLayer(t)
        \/ ModelRaises(t)
        \/ DirectReturns(t)
        \/ CopyStep(t)
        \/ ClearStep(t)
        \/ ReturnResult(t)

SpecSerial == InitWrapper /\ [][NextSerial]_vars

\* two callers (threads) inside extract_features of the same wrapper; every
\* list operation is one atomic step
NextConc ==
    \E t \in Callers :
        \/ nextPass < MaxConcurrentPasses /\ BeginExtract(t)
        \/ RunLayer(t)
        \/ CopyStep(t)
        \/ ClearStep(t)
        \/ ReturnResult(t)

SpecConc == InitWrapper /\ [][NextConc]_vars

InitLoad ==
    /\ CtcIdle
    /\ WrapperConstructed
    /\ lpc = "load_checkpoint"
    /\ stateKeys \in StateKeys
    /\ model_type \in Tags
    /\ weightsMatch \in BOOLEAN
    /\ model = NoModel
    /\ task_agnostic = "None"
    /\ weights_loaded = FALSE
    /\ outcome = "running"

NextLoad ==
    \/ LoadCheckpoint
    \/ ResolveCfg
    \/ Dispatch
    \/ Quantize
    \/ LoadStateDict
    \/ WrapTeacher
    \/ ReturnModel

SpecLoad == InitLoad /\ [][NextLoad]_vars

(***************************************************************************)
(* Properties                                                              *)
(***************************************************************************)
Contains(s, x) == \E k \in 1..Len(s) : s[k] = x

NoAdjacentEqual(s) == \A k \in 1..(Len(s) - 1) : s[k] # s[k + 1]

HasSubstring(s, sub) ==
    \E k \in 1..(Len(s) - Len(sub) + 1) : SubSeq(s, k, k + Len(sub) - 1) = sub

RECURSIVE IsSubsequence(_, _)
IsSubsequence(a, b) ==
    IF Len(a) = 0 THEN TRUE
    ELSE IF Len(b) = 0 THEN FALSE
    ELSE IF a[1] = b[1] THEN IsSubsequence(Tail(a), Tail(b))
    ELSE IsSubsequence(a, Tail(b))

\* position k of s starts a run of equal ids
StartsRun(s, k) == k = 1 \/ s[k - 1] # s[k]

\* the ids of s at the positions that start a run of a non-blank id, in order
RECURSIVE RunStartsFrom(_, _)
RunStartsFrom(s, k) ==
    IF k > Len(s) THEN <<>>
    ELSE IF StartsRun(s, k) /\ s[k] # BlankId
         THEN <<s[k]>> \o RunStartsFrom(s, k + 1)
         ELSE RunStartsFrom(s, k + 1)

InVocabulary(s) == \A k \in 1..Len(s) : s[k] \in 0..(VocabSize - 1)

\* C1 as stated: the collapsed sequence has no two adjacent equal elements and
\* no blank id.
C1_NoAdjacentNoBlank ==
    "collapse" \in called =>
        NoAdjacentEqual(collapsed) /\ ~Contains(collapsed, 0)

\* C1 amended: the collapsed sequence never contains the blank id 0; it has no
\* two adjacent equal elements when the input holds no blank, and two adjacent
\* equal elements of the output come from two occurrences of that id in the
\* input with a blank between them.
C1_NoBlank_AdjacentOnlyAcrossBlank ==
    "collapse" \in called =>
        /\ ~Contains(collapsed, 0)
        /\ ~Contains(ids, 0) => NoAdjacentEqual(collapsed)
        /\ \A k \in 1..(Len(collapsed) - 1) :
              collapsed[k] = collapsed[k + 1] =>
                 \E i, j, l \in 1..Len(ids) :
                    /\ i < j /\ j < l
                    /\ ids[i] = collapsed[k] /\ ids[l] = collapsed[k]
                    /\ ids[j] = 0

C1_Witness ==
    /\ "collapse" \in called
    /\ Contains(ids, 0)
    /\ Len(collapsed) >= 2
    /\ ~NoAdjacentEqual(collapsed)

\* C2 as stated: collapsing the collapsed sequence again changes nothing.
C2_Idempotent ==
    "recollapse" \in called => recollapsed = collapsed

\* C2 amended: collapsing again changes nothing when the first result has no two
\* adjacent equal elements (in particular for every input without a blank);
\* otherwise the second pass merges the repeats the blank had kept apart and the
\* result gets shorter.
C2_IdempotentWithoutBlankSeparatedRepeats ==
    "recollapse" \in called =>
        /\ NoAdjacentEqual(collapsed) => recollapsed = collapsed
        /\ ~Contains(ids, 0) => recollapsed = collapsed
        /\ ~NoAdjacentEqual(collapsed) => Len(recollapsed) < Len(collapsed)

C2_Witness ==
    /\ "recollapse" \in called
    /\ Len(ids) = MaxLen
    /\ Contains(ids, 0)
    /\ ~NoAdjacentEqual(ids)
    /\ Len(collapsed) >= 1
    /\ recollapsed = collapsed

\* C3: the converter returns, for every integer sequence, the ids that start a
\* run of a non-blank id (runs merged, then blanks deleted): a subsequence of
\* the input, no longer than it, empty when the input is empty or all blanks.
C3_MergeRunsThenDropBlanks ==
    "collapse" \in called =>
        /\ collapsed = RunStartsFrom(ids, 1)
        /\ IsSubsequence(collapsed, ids)
        /\ Len(collapsed) <= Len(ids)
        /\ (\A k \in 1..Len(ids) : ids[k] = 0) => collapsed = <<>>

C3_Witness ==
    /\ "collapse" \in called
    /\ Len(ids) = MaxLen
    /\ Contains(ids, 0)
    /\ ~NoAdjacentEqual(ids)
    /\ Len(collapsed) >= 1
    /\ Len(collapsed) < Len(ids)

WrapId(i) == IF i < 0 THEN i + VocabSize ELSE i

C5_DecodeRawEqualsDecodeCollapsed ==
    ({"collapse", "decode", "decodeCollapsed"} \subseteq called /\ InVocabulary(ids)) =>
        decoded = decodedCollapsed

\* C5 amended: for ids in 0..31, decoding the raw sequence and decoding its
\* collapsed sequence give the same string when the collapsed sequence has no
\* two adjacent equal elements (in particular when the input has no blank).
C5_DecodeRawEqualsDecodeCollapsedNoRepeat ==
    ({"collapse", "decode", "decodeCollapsed"} \subseteq called /\ InVocabulary(ids)) =>
        /\ NoAdjacentEqual(collapsed) => decoded = decodedCollapsed
        /\ ~Contains(ids, 0) => decoded = decodedCollapsed

C5_Witness ==
    /\ {"collapse", "decode", "decodeCollapsed"} \subseteq called
    /\ InVocabulary(ids)
    /\ ~NoAdjacentEqual(ids)
    /\ Contains(ids, 0)
    /\ collapsed # ids
    /\ NoAdjacentEqual(collapsed)
    /\ Len(decoded.text) >= 1
    /\ decoded = decodedCollapsed

\* what one symbol contributes to the decoded text
SymbolText(i) ==
    IF i = 0 THEN <<>> ELSE IF i = 4 THEN <<" ">> ELSE look_up[i + 1]

\* the symbols that start a run, each replaced by its contribution, concatenated
RECURSIVE TextFrom(_, _)
TextFrom(s, k) ==
    IF k > Len(s) THEN <<>>
    ELSE IF StartsRun(s, k) THEN SymbolText(s[k]) \o TextFrom(s, k + 1)
    ELSE TextFrom(s, k + 1)

\* C6: for ids in 0..31 decode returns the merged symbols, concatenated, with
\* every "<s>" deleted and every "|" turned into one space, without trailing
\* whitespace; the text holds no "<s>", no "|"; decode([5,5,6,6,4,7]) = "ET A".
C6_DecodeSteps ==
    ("decode" \in called /\ InVocabulary(ids)) =>
        /\ ~decoded.err
        /\ \E n \in 0..Len(TextFrom(ids, 1)) :
              TextFrom(ids, 1) = decoded.text \o [k \in 1..n |-> " "]
        /\ Len(decoded.text) > 0 => decoded.text[Len(decoded.text)] \notin Whitespace
        /\ ~HasSubstring(decoded.text, SosMarker)
        /\ ~Contains(decoded.text, "|")
        /\ ids = Example1 => decoded.text = <<"E", "T", " ", "A">>

C6_Witness ==
    /\ "decode" \in called
    /\ InVocabulary(ids)
    /\ Len(ids) = MaxLen
    /\ ids[1] = 0
    /\ ids[MaxLen] = 4
    /\ Len(decoded.text) >= 1

\* C7: with calls on the wrapper made one at a time, every list a call returned
\* holds exactly that call's outputs, one per encoder layer, layer 0 first, and
\* x is taken from the last layer's output of that call.
C7_ReturnsOwnLayersInOrder ==
    \A r \in returned :
        /\ Len(lists[r.layer_results]) = NumLayers
        /\ lists[r.layer_results] = OwnOutputs(r.pass)
        /\ r.x = Output(r.pass, NumLayers - 1)

C7_Witness ==
    \E r \in returned : \E e \in raised :
        /\ e.exc = "ModelError"
        /\ e.at >= 1
        /\ e.pass + 1 = r.pass

\* C8: with two callers inside extract_features, a call gets a list that is not
\* exactly its own outputs, or fails on the empty list, only if it overlapped
\* another call; such calls exist.
C8_WrongResultOnlyWhenOverlapped ==
    /\ \A r \in returned :
          lists[r.layer_results] # OwnOutputs(r.pass) => r.pass \in overlapped
    /\ \A e \in raised : e.pass \in overlapped

C8_Witness ==
    /\ \E r \in returned :
          /\ Len(lists[r.layer_results]) > NumLayers
          /\ \E k \in 1..Len(lists[r.layer_results]) :
                lists[r.layer_results][k][1] # r.pass
    /\ \E e \in raised : e.exc = "IndexError" /\ e.pass \in overlapped

KnownTags == {"wav2vec2", "wav2vec_ctc", "hubert"}

ExpectedFlag == IF model_type = "wav2vec_ctc" THEN "False" ELSE "True"

\* C9 as stated: the tag alone decides the outcome: a known tag yields a wrapped
\* model with its flag, any other tag fails with NotImplementedError before
\* weights are loaded.
C9_TagDecidesOutcome ==
    (lpc = "done" /\ stateKeys # "neither") =>
        IF model_type \in KnownTags
        THEN outcome = "returned" /\ model.wrapped /\ task_agnostic = ExpectedFlag
        ELSE outcome = "NotImplementedError" /\ ~weights_loaded /\ ~model.wrapped

\* C9 amended: a call that returns hands back a wrapped model whose flag is true
\* for 'wav2vec2' and 'hubert' and false for 'wav2vec_ctc'; a known tag can
\* still fail after the dispatch (strict weight loading raises on a mismatch);
\* every other tag raises NotImplementedError before load_state_dict runs and
\* with no model built.
C9_TagDecidesFlagOrUnsupported ==
    (lpc = "done" /\ stateKeys # "neither") =>
        IF model_type \in KnownTags
        THEN /\ outcome \in {"returned", "RuntimeError"}
             /\ outcome = "returned" <=> weightsMatch
             /\ task_agnostic = ExpectedFlag
             /\ outcome = "returned" => model.wrapped /\ weights_loaded
        ELSE /\ outcome = "NotImplementedError"
             /\ ~weights_loaded
             /\ model = NoModel
             /\ task_agnostic = "None"

C9_Witness ==
    /\ lpc = "done"
    /\ outcome = "returned"
    /\ model_type = "wav2vec_ctc"
    /\ task_agnostic = "False"
    /\ model.wrapped

\* C10: the list a call returns is not the capture buffer; the buffer is empty
\* when a call returns, and no later step changes a list returned earlier.
C10_ReturnedListsAreSeparateCopies ==
    [][ /\ \A r \in returned : lists'[r.layer_results] = lists[r.layer_results]
        /\ \A r \in returned' \ returned :
              /\ r.layer_results # HookRef
              /\ lists'[HookRef] = <<>> ]_vars

C10_Witness ==
    \E r1 \in returned : \E r2 \in returned :
        /\ r1.pass < r2.pass
        /\ r1.layer_results # r2.layer_results
        /\ lists[r1.layer_results] = OwnOutputs(r1.pass)

====
